---- MODULE Spec2Model ----
(***************************************************************************)
(* Model of the nwd WebDriver client (lib/webDriver.js): the polling       *)
(* engine (waitFor), the command dispatcher (_cmd), the selector           *)
(* resolution engine (get / getList / _getIds with the native and the      *)
(* jquery strategy, the script bootstrap, waitForElementAbsent), the       *)
(* session facade (init, setTimeout, setTimeouts, ...), the wait           *)
(* operations built on waitFor and the element methods mirrored on the     *)
(* driver.                                                                 *)
(*                                                                         *)
(* Each engine has its own specification over its own group of variables;  *)
(* the variables of the other groups stay at their initial value.          *)
(***************************************************************************)
EXTENDS Integers, Sequences, FiniteSets, TLC

VARIABLES
    \* ---- polling engine (WebDriver.prototype.waitFor) ----
    wPhase,             \* "idle" before the call of waitFor, "called" after
    now,                \* the event loop's clock, in ms
    timers,             \* armed setTimeout timers: [kind, at]
    isDone,             \* waitFor's local isDone
    isTimeoutExceeded,  \* waitFor's local isTimeoutExceeded
    wParams,            \* params of the call: [timeout, noError, errorMessage]
    wTimeout,           \* waitFor's local timeout (the effective value)
    predPending,        \* func has been invoked and has not reported yet
    funcCalls,          \* number of invocations of func
    reported,           \* history of the reports of func: [done, late]
    waitCalls,          \* history of the invocations of callback
    timeouts,           \* this.timeouts, the timeout table
    \* ---- command dispatcher (WebDriver.prototype._cmd) ----
    sessionBasePath,    \* this.sessionBasePath, as a sequence of path segments
    inflight,           \* HTTP requests sent and not answered yet
    httpLog,            \* history of the HTTP requests issued: [path, method]
    calls,              \* history of the invocations of the callers' callbacks
    \* ---- selector resolution (get, getList, _getIds, jquery strategy) ----
    gPhase,             \* "idle", "running" (a lookup is in flight) or "done"
    gCall,              \* the public call being served and its params
    gInj,               \* addInjection of the script execution in flight
    execCount,          \* script executions issued by the call so far
    page,               \* what the page has installed: [jquery, func]
    gRogue,             \* some answer was not the page's own evaluation
    \* ---- session facade (init, deleteSession, setTimeout, setTimeouts) ----
    sessionId,          \* this.sessionId ("" while there is none)
    curOp,              \* the public operation called last: [n, op]
    closures,           \* per setTimeouts call: its locals count and current
    initAnswer,         \* the answer to the latest session-creation request
    \* ---- wait operations built on waitFor ----
    wOp,                \* the wait operation called: [op, call, oldUrl, newUrl]
    \* ---- driver.element.<method> and the same done by hand ----
    mCall,              \* the call of driver.element.<method> and its split
    byHand              \* get followed by element.<method>: [sent, reports]

waitVars == <<wPhase, now, timers, isDone, isTimeoutExceeded, wParams,
              wTimeout, predPending, funcCalls, reported, waitCalls>>

cmdVars == <<sessionBasePath, inflight, httpLog, calls>>

getVars == <<gPhase, gCall, gInj, execCount, page, gRogue>>

sessVars == <<sessionId, curOp, closures, initAnswer>>

mirrorVars == <<mCall, byHand>>

opVars == <<wOp, mirrorVars>>

vars == <<waitVars, timeouts, cmdVars, getVars, sessVars, opVars>>

othersThanWait == <<timeouts, cmdVars, getVars, sessVars, opVars>>
othersThanCmd == <<waitVars, timeouts, getVars, sessVars, opVars>>
othersThanGet == <<waitVars, timeouts, sessionBasePath, sessVars, opVars>>
othersThanSession == <<waitVars, getVars, opVars>>
othersThanWaitOp == <<sessionBasePath, getVars, sessVars, mirrorVars>>
othersThanMirror == <<waitVars, timeouts, sessionBasePath, getVars, sessVars, wOp>>

\* the locals of a waitFor call and its bookkeeping, without the callback log
waitLocals == <<wPhase, now, timers, isDone, isTimeoutExceeded, wParams,
                wTimeout, predPending, funcCalls, reported>>

(***************************************************************************)
(* Bounds of the model.                                                    *)
(***************************************************************************)
ClockStep == 10     \* granularity of the clock, ms
MaxTime == 150      \* the clock stops here
MaxTimeoutParam == 70

\* the constructor's default timeout table (WebDriver, lines 41-48) with the
\* waitFor entry as given in params.timeouts
delay == 20
TimeoutTypes == {"page load", "script", "implicit", "waitFor"}
DefaultTimeouts(waitForMs) ==
    [t \in TimeoutTypes |->
        CASE t = "page load" -> 3500
          [] t = "script" -> 1000
          [] t = "implicit" -> 0
          [] OTHER -> waitForMs]

\* params.timeout of a waitFor call: 0 stands for "not given" (falsy)
TimeoutParams == {0, 10, 30, MaxTimeoutParam}
TableWaitFor == {40}
ErrorMessages == {"", "waiting for x"}

\* no call of waitFor has been made
WaitIdle ==
    /\ wPhase = "idle"
    /\ now = 0
    /\ timers = {}
    /\ isDone = FALSE
    /\ isTimeoutExceeded = FALSE
    /\ wParams = [timeout |-> 0, noError |-> FALSE, errorMessage |-> ""]
    /\ wTimeout = 0
    /\ predPending = FALSE
    /\ funcCalls = 0
    /\ reported = <<>>
    /\ waitCalls = <<>>

\* no selector resolution has been started
NoCall ==
    [op |-> "none", selector |-> "none", using |-> "", noError |-> FALSE,
     isSingle |-> FALSE, parent |-> "none", chain |-> [given |-> FALSE, ops |-> <<>>]]

\* a URL pattern of waitForUrlChange: none (falsy), a string or a RegExp
Pattern(kind, text) == [kind |-> kind, text |-> text]
NoUrl == Pattern("none", <<>>)

\* no wait operation has been called
NoWaitOp == [op |-> "none", call |-> NoCall, oldUrl |-> NoUrl, newUrl |-> NoUrl]

SessionIdle ==
    /\ sessionId = ""
    /\ curOp = [n |-> 0, op |-> "none"]
    /\ closures = <<>>
    /\ initAnswer = <<>>

\* no wait operation has been called and driver.element has not been used
OpIdle ==
    /\ wOp = NoWaitOp
    /\ mCall = [phase |-> "idle", method |-> [name |-> "", underscore |-> FALSE],
                given |-> <<>>, getArgs |-> <<>>, methodArgs |-> <<>>,
                answer |-> <<>>]
    /\ byHand = [sent |-> <<>>, reports |-> <<>>]

GetIdle ==
    /\ gPhase = "idle"
    /\ gCall = NoCall
    /\ gInj = "none"
    /\ execCount = 0
    /\ page = [jquery |-> FALSE, func |-> FALSE]
    /\ gRogue = FALSE

(***************************************************************************)
(* JSON values, responses and errors                                       *)
(***************************************************************************)
Range(seq) == {seq[i] : i \in 1..Len(seq)}

\* a JSON value (or its absence): tag, the items of an array / the ELEMENT
\* ids of element references, and the text of a primitive
Val(tag, items, str) == [tag |-> tag, items |-> items, str |-> str]
Absent == Val("absent", <<>>, "")
Null == Val("null", <<>>, "")
EmptyObject == Val("emptyObject", <<>>, "")
ElementRef(id) == Val("object", <<id>>, "")
Array(ids) == Val("array", ids, "")
Str(t) == Val("string", <<>>, t)
False == Val("boolean", <<>>, "false")
True == Val("boolean", <<>>, "true")
Zero == Val("number", <<>>, "0")
\* what a callback can receive besides a JSON value
Self == Val("driver", <<>>, "")
RawRes == Val("res", <<>>, "")
Undefined == Val("undefined", <<>>, "")

\* an error object: its constructor and the context attached by parametrize
Err(kind, ctx) == [kind |-> kind, ctx |-> ctx]
NoErr == Err("none", <<>>)

\* utils.isObject, utils.isEmptyObject: type predicates of the utility module
isObject(v) == v.tag \in {"object", "emptyObject"}
isEmptyObject(v) == v.tag = "emptyObject"
isArray(v) == v.tag = "array"

\* errors.getProtocolErrorContructor: one error kind per protocol status code
getProtocolErrorContructor(status) ==
    CASE status = 7 -> "NoSuchElementError"
      [] status = 10 -> "StaleElementReferenceError"
      [] status = 13 -> "UnknownError"
      [] status = 17 -> "JavaScriptError"
      [] status = 21 -> "TimeoutError"
      [] OTHER -> "UnknownProtocolError"

\* the status field is absent from the envelope
StatusAbsent == 0 - 1

\* an HTTP exchange as request() delivers it: a transport error (its code),
\* or a body that is empty, not JSON, JSON null, a JSON primitive, or a JSON
\* object with optional status, value and sessionId, plus the Location
\* header; raw is the text of the body as a sequence of characters and
\* words, "envelope" standing for the members status, value and sessionId
Response(transport, body, status, value, sid, location) ==
    [transport |-> transport, body |-> body, status |-> status,
     value |-> value, sessionId |-> sid, location |-> location,
     raw |-> CASE body = "empty" -> <<>>
               [] body = "object" -> <<"{", "envelope", "}">>
               [] body = "null" -> <<"null">>
               [] body = "primitive" -> <<"5">>
               [] OTHER -> <<"<", "html", ">">>]
TransportFailure == Response("ECONNREFUSED", "empty", StatusAbsent, Absent, "", <<>>)
Envelope(status, value) == Response("ok", "object", status, value, "", <<>>)

\* the character with code 0
NUL == "NUL"

\* _strip as the identity
stripNothing(str) == str

\* _strip (lines 109-120): the characters whose code is not 0
_strip(str) == SelectSeq(str, LAMBDA ch : ch # NUL)

\* JSON.parse (line 141): the kind of document, or the failure
JSONparse(text) ==
    CASE text = <<"{", "envelope", "}">> ->
            [threw |-> FALSE, reason |-> "", tag |-> "envelope"]
      [] text = <<"{", "}">> -> [threw |-> FALSE, reason |-> "", tag |-> "empty"]
      [] text = <<"null">> -> [threw |-> FALSE, reason |-> "", tag |-> "null"]
      [] text = <<"5">> -> [threw |-> FALSE, reason |-> "", tag |-> "primitive"]
      [] text = <<>> ->
            [threw |-> TRUE, reason |-> "Unexpected end of input", tag |-> ""]
      [] OTHER -> [threw |-> TRUE, reason |-> "Unexpected token", tag |-> ""]

(***************************************************************************)
(* Command dispatcher: WebDriver.prototype._cmd                            *)
(***************************************************************************)
\* what the request callback of _cmd does with a response: the arguments it
\* passes to callback, or a TypeError thrown inside the response handler
Outcome(thrown, err, value) == [thrown |-> thrown, err |-> err, value |-> value]

\* lines 153-161 with the null test left out
UnwrapWithoutNullTest(resNeeded, value) ==
    IF resNeeded THEN RawRes
    ELSE IF value # Absent
            /\ (isArray(value) \/ ~isObject(value) \/ ~isEmptyObject(value))
         THEN value
         ELSE Self

\* lines 153-161: `res` if needed, otherwise `res.data.value` or `this`
Unwrap(resNeeded, value) ==
    IF resNeeded THEN RawRes
    ELSE IF value # Absent /\ value # Null
            /\ (isArray(value) \/ ~isObject(value) \/ ~isEmptyObject(value))
         THEN value
         ELSE Self

\* lines 137-162 with the status test left out
CmdOutcomeIgnoringStatus(params, res) ==
    IF res.transport # "ok"
    THEN Outcome(FALSE, Err("TransportError", <<res.transport>>), Undefined)
    ELSE LET text == IF res.raw # <<>> THEN _strip(res.raw) ELSE <<"{", "}">>
             parsed == JSONparse(text)
         IN IF parsed.threw
            THEN Outcome(FALSE,
                         Err("ProtocolError", <<params.rel, parsed.reason, text>>),
                         Undefined)
            ELSE IF parsed.tag = "null" THEN Outcome(TRUE, NoErr, Undefined)
            ELSE LET data == IF parsed.tag = "envelope" THEN res
                             ELSE Envelope(StatusAbsent, Absent)
                 IN Outcome(FALSE, NoErr, Unwrap(params.resNeeded, data.value))

\* lines 137-162: the callback _cmd gives to request() for the command
\* descriptor `params`; a transport error is passed on as it is, a
\* ProtocolError carries params.path, the parser's message and the text
CmdOutcome(params, res) ==
    IF res.transport # "ok"
    THEN Outcome(FALSE, Err("TransportError", <<res.transport>>), Undefined)
    ELSE LET text == IF res.raw # <<>> THEN _strip(res.raw) ELSE <<"{", "}">>
             parsed == JSONparse(text)
         IN IF parsed.threw
            THEN Outcome(FALSE,
                         Err("ProtocolError", <<params.rel, parsed.reason, text>>),
                         Undefined)
            ELSE IF parsed.tag = "null" THEN Outcome(TRUE, NoErr, Undefined)
            ELSE LET data == IF parsed.tag = "envelope" THEN res
                             ELSE Envelope(StatusAbsent, Absent)
                 IN IF data.status # StatusAbsent /\ data.status # 0
                    THEN Outcome(FALSE,
                                 Err(getProtocolErrorContructor(data.status), <<>>),
                                 Undefined)
                    ELSE Outcome(FALSE, NoErr, Unwrap(params.resNeeded, data.value))

\* line 129: path: this.sessionBasePath + params.path
CmdPath(base, path) == base \o path

\* lines 124-136: the request _cmd builds for a command descriptor
Request(op, path, method, resNeeded) ==
    [op |-> op, rel |-> path, path |-> CmdPath(sessionBasePath, path),
     method |-> method, resNeeded |-> resNeeded]

\* this.sessionBasePath = '/wd/hub/session' (line 30)
InitialBasePath == <<"wd", "hub", "session">>
SessionIds == {"s1", "s2"}

CmdIdle ==
    /\ sessionBasePath = InitialBasePath
    /\ inflight = {}
    /\ httpLog = <<>>
    /\ calls = <<>>

\* the one-line protocol mappings: deleteSession, setUrl, getUrl, getTitle,
\* deleteCookie, refresh, back (lines 213-240, 706-766); method defaults to
\* this.requestParams.method
PlainCommands ==
    { [op |-> "deleteSession", path |-> <<>>, method |-> "DELETE"],
      [op |-> "setUrl", path |-> <<"url">>, method |-> "POST"],
      [op |-> "getUrl", path |-> <<"url">>, method |-> "GET"],
      [op |-> "getTitle", path |-> <<"title">>, method |-> "GET"],
      [op |-> "deleteCookie", path |-> <<"cookie">>, method |-> "DELETE"],
      [op |-> "refresh", path |-> <<"refresh">>, method |-> "POST"],
      [op |-> "back", path |-> <<"back">>, method |-> "POST"] }

\* the values a server can put into the value field
ResponseValues ==
    { Absent, Null, EmptyObject, ElementRef("e1"), Array(<<>>),
      Array(<<"e1">>), False, Zero, Str(""), Str("text") }
ResponseStatuses == {StatusAbsent, 0, 7, 10, 13, 17, 21, 33}

TransportReset == Response("ECONNRESET", "empty", StatusAbsent, Absent, "", <<>>)

\* the responses of a server, some with NUL characters in the body
Responses ==
    LET garbage == Response("ok", "garbage", StatusAbsent, Absent, "", <<>>)
        withNul(res) == [res EXCEPT !.raw = <<NUL>> \o @ \o <<NUL>>]
    IN { TransportFailure, TransportReset }
       \cup { Response("ok", b, StatusAbsent, Absent, "", <<>>) :
                 b \in {"empty", "garbage", "null", "primitive"} }
       \cup { Envelope(st, v) : st \in ResponseStatuses, v \in ResponseValues }
       \cup { withNul(Envelope(0, Str("text"))), withNul(garbage),
              [garbage EXCEPT !.raw = <<NUL>>] }

\* the driver after construction or after a session was started
CmdInit ==
    /\ WaitIdle
    /\ timeouts = DefaultTimeouts(3000)
    /\ sessionBasePath \in
          {InitialBasePath} \cup {InitialBasePath \o <<s>> : s \in SessionIds}
    /\ inflight = {}
    /\ httpLog = <<>>
    /\ calls = <<>>
    /\ GetIdle
    /\ SessionIdle
    /\ OpIdle

\* a public one-line operation calls _cmd (resNeeded is set by init only)
CmdIssue ==
    /\ inflight = {}
    /\ calls = <<>>
    /\ \E c \in PlainCommands, rn \in BOOLEAN :
          LET req == Request(c.op, c.path, c.method, rn)
          IN /\ inflight' = {req}
             /\ httpLog' = Append(httpLog, [path |-> req.path, method |-> req.method])
    /\ UNCHANGED <<sessionBasePath, calls>>
    /\ UNCHANGED othersThanCmd

\* a dispatcher that sends the request again after a transport failure
CmdRespondRetrying ==
    /\ \E req \in inflight, res \in Responses :
          IF res.transport # "ok" /\ Len(httpLog) < 3
          THEN /\ httpLog' = Append(httpLog, [path |-> req.path, method |-> req.method])
               /\ UNCHANGED <<inflight, calls>>
          ELSE /\ inflight' = inflight \ {req}
               /\ calls' = Append(calls, [op |-> req.op, resNeeded |-> req.resNeeded,
                                          rel |-> req.rel, res |-> res,
                                          out |-> CmdOutcome(req, res)])
               /\ UNCHANGED httpLog
    /\ UNCHANGED sessionBasePath
    /\ UNCHANGED othersThanCmd

\* the exchange ends: request() calls back with a transport error or with
\* the response, and _cmd reports to the caller's callback
CmdRespond ==
    /\ \E req \in inflight, res \in Responses :
          /\ inflight' = inflight \ {req}
          /\ calls' = Append(calls, [op |-> req.op, resNeeded |-> req.resNeeded,
                                     rel |-> req.rel, res |-> res,
                                     out |-> CmdOutcome(req, res)])
    /\ UNCHANGED <<sessionBasePath, httpLog>>
    /\ UNCHANGED othersThanCmd

CmdNext == CmdIssue \/ CmdRespond

SpecCmd == CmdInit /\ [][CmdNext]_vars

(***************************************************************************)
(* The page: a small document and the injected jquery snippets             *)
(***************************************************************************)
\* the document: elements e1, e2 in document order, e2 inside the element p
Selectors == {"none", "one", "many"}
Matches(selector, parent) ==
    LET all == CASE selector = "one" -> <<"e2">>
                 [] selector = "many" -> <<"e1", "e2">>
                 [] OTHER -> <<>>
    IN IF parent = "none" THEN all
       ELSE SelectSeq(all, LAMBDA e : e = "e2")

\* the traversal methods a jquery object has in this document
JqueryMethods == {"next", "prev"}
JqueryApply(method, elements) ==
    CASE method = "next" -> IF "e1" \in Range(elements) THEN <<"e2">> ELSE <<>>
      [] method = "prev" -> IF "e2" \in Range(elements) THEN <<"e1">> ELSE <<>>
      [] OTHER -> <<>>

\* lines 268-282: the $.each over chain; an unknown method throws
ApplyChain(elements, ops) ==
    LET RECURSIVE Go(_, _)
        Go(els, rest) ==
            IF rest = <<>> THEN [threw |-> FALSE, ids |-> els]
            ELSE IF Head(rest) \notin JqueryMethods THEN [threw |-> TRUE, ids |-> <<>>]
            ELSE Go(JqueryApply(Head(rest), els), Tail(rest))
    IN Go(elements, ops)

\* lines 263-285: ___nwdJqGetElements(selector, parent, chain)
nwdJqGetElements(selector, parent, chain) ==
    LET elements == Matches(selector, parent)
    IN IF elements # <<>> /\ chain.given
       THEN ApplyChain(elements, chain.ops)
       ELSE [threw |-> FALSE, ids |-> elements]

\* what a server answers for a script: its return value, or a
\* javascript-error status when the script threw
ScriptAnswer(r) ==
    IF r.threw THEN Envelope(17, Absent) ELSE Envelope(0, Array(r.ids))

\* bare, helper library installed, helper and selection function installed
PageStates ==
    { [jquery |-> FALSE, func |-> FALSE], [jquery |-> TRUE, func |-> FALSE],
      [jquery |-> TRUE, func |-> TRUE] }

\* the snippet without the assignment of line 303: the selection function
\* is used and not kept on the page
JquerySnippetNotKeepingFunc(pg, inj, call) ==
    IF ~pg.jquery /\ inj # "both"
    THEN [page |-> pg, res |-> Envelope(0, Str("needJquery"))]
    ELSE LET pg1 == [pg EXCEPT !.jquery = TRUE] IN
         IF ~pg1.func /\ inj = "none"
         THEN [page |-> pg1, res |-> Envelope(0, Str("needFunc"))]
         ELSE [page |-> pg1,
               res |-> ScriptAnswer(
                          nwdJqGetElements(call.selector, call.parent, call.chain))]

\* lines 296-305: the strategy's snippet run in the page `pg` with the
\* source `inj` ("none", "func" or "both") prepended: the page afterwards
\* and the server's answer
JquerySnippet(pg, inj, call) ==
    IF ~pg.jquery /\ inj # "both"
    THEN [page |-> pg, res |-> Envelope(0, Str("needJquery"))]
    ELSE LET pg1 == [pg EXCEPT !.jquery = TRUE] IN
         IF ~pg1.func /\ inj = "none"
         THEN [page |-> pg1, res |-> Envelope(0, Str("needFunc"))]
         ELSE [page |-> [pg1 EXCEPT !.func = TRUE],
               res |-> ScriptAnswer(
                          nwdJqGetElements(call.selector, call.parent, call.chain))]

\* lines 610-628: the document-ready snippet with `inj` ("none" or "jquery")
\* prepended; ready(true) races the in-page timeout (false)
DocReadySnippet(pg, inj) ==
    IF ~pg.jquery /\ inj # "jquery"
    THEN {[page |-> pg, res |-> Envelope(0, Str("needJquery"))]}
    ELSE {[page |-> [pg EXCEPT !.jquery = TRUE], res |-> Envelope(0, b)] :
             b \in {True, False}}

(***************************************************************************)
(* Selector resolution: get, getList, _getIds and the jquery strategy      *)
(***************************************************************************)
MaxExec == 4        \* script executions per call that the model follows

\* element ids and element handles as callback values
Id(id) == Val("id", <<id>>, "")
Ids(ids) == Val("ids", ids, "")
WebElementOf(id) == Val("WebElement", <<id>>, "")
WebElements(ids) == Val("WebElements", ids, "")

\* params.using || this.defaults.using (line 397)
EffectiveUsing(using) == IF using = "" THEN "css selector" ELSE using

\* err.parametrize({element: selector, using: params.using}), lines 428-432;
\* the error object of a transport failure has no parametrize method
parametrizeError(err, call) ==
    IF err.kind = "none" THEN Outcome(FALSE, err, False)
    ELSE IF err.kind = "TransportError" THEN Outcome(TRUE, NoErr, Undefined)
    ELSE Outcome(FALSE,
                 Err(err.kind, <<call.selector, EffectiveUsing(call.using)>>),
                 False)

\* value.ELEMENT
ELEMENT(value) ==
    IF value.tag = "object" /\ value.items # <<>> THEN Id(value.items[1])
    ELSE Undefined

\* lines 418-425 without the noError test
NativeIdsWithoutNoError(call, out) ==
    IF out.thrown THEN out
    ELSE IF out.err.kind # "none" THEN parametrizeError(out.err, call)
    ELSE IF call.isSingle THEN Outcome(FALSE, NoErr, ELEMENT(out.value))
    ELSE IF isArray(out.value) THEN Outcome(FALSE, NoErr, Ids(out.value.items))
    ELSE Outcome(TRUE, NoErr, Undefined)

\* lines 418-425: the callback of the native find-element command, applied
\* to the outcome of _cmd
NativeIds(call, out) ==
    IF out.thrown THEN out
    ELSE IF out.err.kind # "none" /\ call.noError
            /\ out.err.kind = "NoSuchElementError"
         THEN Outcome(FALSE, NoErr, Null)
    ELSE IF out.err.kind # "none" THEN parametrizeError(out.err, call)
    ELSE IF call.isSingle THEN Outcome(FALSE, NoErr, ELEMENT(out.value))
    ELSE IF isArray(out.value) THEN Outcome(FALSE, NoErr, Ids(out.value.items))
    ELSE Outcome(TRUE, NoErr, Undefined)

\* lines 309-331: the callback of the strategy's script execution, for a
\* result that is not a string
JqueryIds(call, out) ==
    IF out.thrown \/ out.err.kind # "none" THEN out
    ELSE IF ~isArray(out.value) THEN Outcome(TRUE, NoErr, Undefined)
    ELSE IF out.value.items = <<>>
         THEN IF call.isSingle
              THEN Outcome(FALSE,
                           Err("NoSuchElementError",
                               <<call.selector, EffectiveUsing(call.using)>>),
                           Undefined)
              ELSE Outcome(FALSE, NoErr, Ids(<<>>))
         ELSE Outcome(FALSE, NoErr, Ids(out.value.items))

\* lines 400-405: the callback _getIds gives to a custom strategy
CustomIds(call, o) ==
    IF o.thrown THEN o
    ELSE IF o.err.kind # "none" /\ call.noError
            /\ o.err.kind = "NoSuchElementError"
         THEN Outcome(FALSE, NoErr, Null)
    ELSE IF o.err.kind # "none" THEN parametrizeError(o.err, call)
    ELSE IF call.isSingle THEN Outcome(FALSE, NoErr, Id(o.value.items[1]))
    ELSE Outcome(FALSE, NoErr, o.value)

\* lines 359-361: callback(err, !err && id && new WebElement(id, self))
GetResult(o) ==
    IF o.thrown THEN o
    ELSE IF o.err.kind # "none" THEN Outcome(FALSE, o.err, False)
    ELSE IF o.value.tag = "id" THEN Outcome(FALSE, NoErr, WebElementOf(o.value.items[1]))
    ELSE Outcome(FALSE, NoErr, o.value)

\* lines 377-381: callback(err, !err && ids.map(...))
GetListResult(o) ==
    IF o.thrown THEN o
    ELSE IF o.err.kind # "none" THEN Outcome(FALSE, o.err, False)
    ELSE IF o.value.tag = "ids" THEN Outcome(FALSE, NoErr, WebElements(o.value.items))
    ELSE Outcome(TRUE, NoErr, Undefined)

\* lines 553-555: the callback waitForElementAbsent gives to get; a found
\* element is handed to element.waitForDisappear
AbsentResult(o) ==
    IF o.thrown THEN o
    ELSE IF o.err.kind # "none" THEN Outcome(FALSE, o.err, Undefined)
    ELSE IF o.value.tag = "WebElement"
         THEN Outcome(FALSE, NoErr, Val("waitForDisappear", o.value.items, ""))
         ELSE Outcome(FALSE, NoErr, Self)

\* what the caller's callback of get / getList receives, and what
\* waitForElementAbsent does with the result of its get
Wrapped(call, o) ==
    IF call.op = "waitForElementAbsent" THEN AbsentResult(GetResult(o))
    ELSE IF call.isSingle THEN GetResult(o) ELSE GetListResult(o)

\* lines 407-413: the path of the native find-element command
ElementPath(call) ==
    LET last == IF call.isSingle THEN "element" ELSE "elements"
    IN IF call.parent = "none" THEN <<last>>
       ELSE <<"element", call.parent, last>>

\* the calls of get and getList the model follows
Usings == {"", "css selector", "jquery"}
Chains ==
    { [given |-> FALSE, ops |-> <<>>], [given |-> TRUE, ops |-> <<"next">>],
      [given |-> TRUE, ops |-> <<"bogus">>],
      [given |-> TRUE, ops |-> <<"prev", "prev", "bogus">>] }
Parents == {"none", "p"}
GetCalls ==
    { [op |-> IF single THEN "get" ELSE "getList", selector |-> sel,
       using |-> u, noError |-> ne, isSingle |-> single, parent |-> par,
       chain |-> ch] :
        sel \in Selectors, u \in Usings, ne \in BOOLEAN, single \in BOOLEAN,
        par \in Parents, ch \in Chains }

\* the native find-element answers of a server for the page: the protocol's
\* own (element or no-such-element status, list of elements) and what other
\* servers send
FoundAnswer(call) ==
    LET m == Matches(call.selector, call.parent)
    IN IF call.isSingle
       THEN IF m = <<>> THEN Envelope(7, Absent) ELSE Envelope(0, ElementRef(m[1]))
       ELSE Envelope(0, Array([i \in 1..Len(m) |-> m[i]]))
OtherAnswers ==
    { TransportFailure, Response("ok", "garbage", StatusAbsent, Absent, "", <<>>),
      Envelope(7, Absent), Envelope(10, Absent), Envelope(0, Null) }
OtherScriptAnswers ==
    { TransportFailure, Response("ok", "garbage", StatusAbsent, Absent, "", <<>>),
      Envelope(13, Absent), Envelope(0, Null),
      Envelope(0, Str("needJquery")), Envelope(0, Str("other")) }

\* one entry of the history of callbacks (for waitForElementAbsent also of
\* the hand-over to element.waitForDisappear)
Reported(call, res, out, rogue) ==
    [call |-> call, res |-> res, out |-> out, rogue |-> rogue,
     execs |-> execCount]

Post(op, path) ==
    LET req == Request(op, path, "POST", FALSE)
    IN /\ inflight' = {req}
       /\ httpLog' = Append(httpLog, [path |-> req.path, method |-> req.method])

GetInit ==
    /\ WaitIdle
    /\ timeouts = DefaultTimeouts(3000)
    /\ sessionBasePath = InitialBasePath \o <<"s1">>
    /\ inflight = {}
    /\ httpLog = <<>>
    /\ calls = <<>>
    /\ gPhase = "idle"
    /\ gCall = NoCall
    /\ gInj = "none"
    /\ execCount = 0
    /\ page \in PageStates
    /\ gRogue = FALSE
    /\ SessionIdle
    /\ OpIdle

\* get / getList (lines 354-382) up to the first command of _getIds
GetCall ==
    /\ gPhase = "idle"
    /\ \E c \in GetCalls :
          /\ gCall' = c
          /\ IF EffectiveUsing(c.using) = "jquery"
             THEN /\ Post("execute", <<"execute">>)
                  /\ execCount' = 1
             ELSE /\ Post("find", ElementPath(c))
                  /\ execCount' = 0
    /\ gPhase' = "running"
    /\ gInj' = "none"
    /\ UNCHANGED <<calls, page, gRogue>>
    /\ UNCHANGED othersThanGet

\* utils.extend(dst, src): the keys of src are copied over those of dst
extend(dst, src) ==
    [k \in DOMAIN dst \cup DOMAIN src |-> IF k \in DOMAIN src THEN src[k] ELSE dst[k]]

\* waitForElementAbsent(selector, params, callback), lines 548-552: get
\* with {noError: true} extended by the caller's params
WaitForElementAbsentCall ==
    /\ gPhase = "idle"
    /\ \E c \in GetCalls, params \in {<<>>, [noError |-> TRUE], [noError |-> FALSE]} :
          /\ c.isSingle /\ ~c.noError /\ c.parent = "none" /\ ~c.chain.given
          /\ gCall' = [c EXCEPT !.op = "waitForElementAbsent",
                                !.noError = extend([noError |-> TRUE], params).noError]
          /\ IF EffectiveUsing(c.using) = "jquery"
             THEN /\ Post("execute", <<"execute">>)
                  /\ execCount' = 1
             ELSE /\ Post("find", ElementPath(c))
                  /\ execCount' = 0
    /\ gPhase' = "running"
    /\ gInj' = "none"
    /\ UNCHANGED <<calls, page, gRogue>>
    /\ UNCHANGED othersThanGet

\* element.waitForDisappear(callback), called at line 555, ends: with the
\* driver once the element is gone, or with a timeout error
WaitForDisappear ==
    /\ gPhase = "done"
    /\ calls # <<>>
    /\ calls[Len(calls)].out.value.tag = "waitForDisappear"
    /\ \E out \in {Outcome(FALSE, NoErr, Self),
                    Outcome(FALSE, Err("TimeoutError", <<>>), Undefined)} :
          calls' = Append(calls, Reported(gCall, calls[Len(calls)].res, out, gRogue))
    /\ gPhase' = "finished"
    /\ UNCHANGED <<inflight, httpLog, gCall, gInj, execCount, page, gRogue>>
    /\ UNCHANGED othersThanGet

\* lines 389-391: a parent that is no WebElement makes _getIds throw
GetCallInvalidParent ==
    /\ gPhase = "idle"
    /\ \E c \in GetCalls :
          LET bad == [c EXCEPT !.parent = "invalid"]
          IN /\ gCall' = bad
             /\ calls' = Append(calls,
                   Reported(bad, TransportFailure, Outcome(TRUE, NoErr, Undefined),
                            FALSE))
    /\ gPhase' = "done"
    /\ UNCHANGED <<inflight, httpLog, gInj, execCount, page, gRogue>>
    /\ UNCHANGED othersThanGet

\* the find-element command is answered: lines 418-425, then the callback
\* of get / getList
NativeRespond ==
    /\ gPhase = "running"
    /\ \E req \in inflight, res \in {FoundAnswer(gCall)} \cup OtherAnswers :
          /\ req.op = "find"
          /\ LET rogue == res # FoundAnswer(gCall)
                 out == Wrapped(gCall,
                            NativeIds(gCall, CmdOutcome(req, res)))
             IN /\ calls' = Append(calls, Reported(gCall, res, out, rogue))
                /\ gRogue' = rogue
    /\ inflight' = {}
    /\ gPhase' = "done"
    /\ UNCHANGED <<httpLog, gCall, gInj, execCount, page>>
    /\ UNCHANGED othersThanGet

\* the answers to the strategy's script: the page's own evaluation, or
\* something else
ScriptAnswers ==
    LET own == JquerySnippet(page, gInj, gCall)
    IN {[page |-> own.page, res |-> own.res, rogue |-> FALSE]}
       \cup {[page |-> page, res |-> r, rogue |-> TRUE] : r \in OtherScriptAnswers}

\* the script of the jquery strategy is answered with one of `answers`:
\* lines 309-331, then lines 400-405 and the callback of get / getList; a
\* string result re-executes the script with a source prepended
ExecAnswered(answers) ==
    /\ gPhase = "running"
    /\ \E req \in inflight, ans \in answers :
          /\ req.op = "execute"
          /\ page' = ans.page
          /\ gRogue' = (gRogue \/ ans.rogue)
          /\ LET out == CmdOutcome(req, ans.res)
             IN IF ~out.thrown /\ out.err.kind = "none" /\ out.value.tag = "string"
                THEN /\ execCount < MaxExec
                     /\ Post("execute", <<"execute">>)
                     /\ execCount' = execCount + 1
                     /\ gInj' = IF out.value.str = "needJquery" THEN "both" ELSE "func"
                     /\ UNCHANGED <<calls, gPhase>>
                ELSE /\ calls' = Append(calls,
                           Reported(gCall, ans.res,
                                    Wrapped(gCall, CustomIds(gCall, JqueryIds(gCall, out))),
                                    gRogue \/ ans.rogue))
                     /\ inflight' = {}
                     /\ gPhase' = "done"
                     /\ UNCHANGED <<httpLog, execCount, gInj>>
    /\ UNCHANGED gCall
    /\ UNCHANGED othersThanGet

\* the answer is the page's own evaluation, or something else
ExecRespond == ExecAnswered(ScriptAnswers)

\* waitForDocumentReady (lines 606-651): the first execute()
DocReadyCall ==
    /\ gPhase = "idle"
    /\ gCall' = [NoCall EXCEPT !.op = "waitForDocumentReady"]
    /\ Post("execute_async", <<"execute_async">>)
    /\ execCount' = 1
    /\ gInj' = "none"
    /\ gPhase' = "running"
    /\ UNCHANGED <<calls, page, gRogue>>
    /\ UNCHANGED othersThanGet

DocReadyAnswers ==
    {[page |-> a.page, res |-> a.res, rogue |-> FALSE] :
        a \in DocReadySnippet(page, gInj)}
    \cup {[page |-> page, res |-> r, rogue |-> TRUE] : r \in OtherScriptAnswers}

\* lines 631-647: the callback of the document-ready script
DocReadyResult(out) ==
    IF out.thrown \/ out.err.kind # "none" THEN Outcome(out.thrown, out.err, Undefined)
    ELSE IF out.value = True THEN Outcome(FALSE, NoErr, Self)
    ELSE IF out.value = False THEN Outcome(FALSE, Err("DocumentReadyTimeout", <<>>), Undefined)
    ELSE Outcome(FALSE, Err("UnexpectedResult", <<>>), Undefined)

\* the document-ready script is answered; 'needJquery' re-executes it with
\* the helper library prepended
DocReadyRespond ==
    /\ gPhase = "running"
    /\ \E req \in inflight, ans \in DocReadyAnswers :
          /\ req.op = "execute_async"
          /\ page' = ans.page
          /\ gRogue' = (gRogue \/ ans.rogue)
          /\ LET out == CmdOutcome(req, ans.res)
             IN IF ~out.thrown /\ out.err.kind = "none" /\ out.value = Str("needJquery")
                THEN /\ execCount < MaxExec
                     /\ Post("execute_async", <<"execute_async">>)
                     /\ execCount' = execCount + 1
                     /\ gInj' = "jquery"
                     /\ UNCHANGED <<calls, gPhase>>
                ELSE /\ calls' = Append(calls,
                           Reported(gCall, ans.res, DocReadyResult(out),
                                    gRogue \/ ans.rogue))
                     /\ inflight' = {}
                     /\ gPhase' = "done"
                     /\ UNCHANGED <<httpLog, execCount, gInj>>
    /\ UNCHANGED gCall
    /\ UNCHANGED othersThanGet

\* the page is loaded anew: nothing is installed any more
PageReload ==
    /\ gPhase = "running"
    /\ page # [jquery |-> FALSE, func |-> FALSE]
    /\ page' = [jquery |-> FALSE, func |-> FALSE]
    /\ UNCHANGED <<inflight, httpLog, calls, gPhase, gCall, gInj, execCount, gRogue>>
    /\ UNCHANGED othersThanGet

GetNext ==
    \/ GetCall
    \/ GetCallInvalidParent
    \/ WaitForElementAbsentCall
    \/ WaitForDisappear
    \/ NativeRespond
    \/ ExecRespond
    \/ DocReadyCall
    \/ DocReadyRespond
    \/ PageReload

SpecGet == GetInit /\ [][GetNext]_vars

(***************************************************************************)
(* Script bootstrap: jquery-strategy resolutions, one after the other, on  *)
(* a page that evaluates the snippet itself and is not loaded anew         *)
(***************************************************************************)
MaxResolutions == 2     \* resolutions on the page that the model follows

\* get / getList with the jquery strategy (lines 354-382, 397-400, 334)
JqueryCall ==
    /\ gPhase = "idle"
    /\ \E c \in GetCalls :
          /\ c.using = "jquery" /\ c.parent = "none"
          /\ c.chain \in {[given |-> FALSE, ops |-> <<>>],
                          [given |-> TRUE, ops |-> <<"next">>]}
          /\ gCall' = c
    /\ Post("execute", <<"execute">>)
    /\ execCount' = 1
    /\ gPhase' = "running"
    /\ gInj' = "none"
    /\ UNCHANGED <<calls, page, gRogue>>
    /\ UNCHANGED othersThanGet

\* the page evaluates the script and the server passes the result on
FaithfulRespond == ExecAnswered({a \in ScriptAnswers : ~a.rogue})

\* the caller has its result and starts over on the same page
NextResolution ==
    /\ gPhase = "done"
    /\ Len(calls) < MaxResolutions
    /\ gPhase' = "idle"
    /\ gCall' = NoCall
    /\ gInj' = "none"
    /\ execCount' = 0
    /\ UNCHANGED <<inflight, httpLog, calls, page, gRogue>>
    /\ UNCHANGED othersThanGet

BootstrapNext ==
    \/ JqueryCall
    \/ FaithfulRespond
    \/ NextResolution

SpecBootstrap == GetInit /\ [][BootstrapNext]_vars

(***************************************************************************)
(* Session facade: init, deleteSession, setTimeout, setTimeouts            *)
(***************************************************************************)
MaxOps == 2         \* public operations called on the driver

\* this._protocolTimeoutsHash (line 49), in the key order of this.timeouts
ProtocolTimeouts == <<"page load", "script", "implicit">>
IsProtocolTimeout(type) == type \in Range(ProtocolTimeouts)

\* a request of the session facade: the command, the base path it was built
\* with, the public operation n it belongs to, and for a timeouts command
\* the type, the value and the setTimeouts call (closure) it reports to
SessionRequest(seq, n, op, sid, base, rel, method, resNeeded, type, ms, cl) ==
    [seq |-> seq, n |-> n, op |-> op, rel |-> rel, path |-> CmdPath(base, rel),
     method |-> method, resNeeded |-> resNeeded, type |-> type, ms |-> ms,
     cl |-> cl, sid |-> sid]
Sent(req) ==
    [op |-> req.op, sid |-> req.sid, rel |-> req.rel, path |-> req.path,
     method |-> req.method]

\* one entry of the history of callbacks: the operation and what it reported
SessionReport(n, op, out) == [n |-> n, op |-> op, out |-> out]

\* the Location header 'http://host/wd/hub/session/<id>' split at '/'
Location(id) == <<"http:", "", "host", "wd", "hub", "session", id>>

\* what a server answers to the session-creation request
InitResponses ==
    { TransportFailure, Envelope(13, Absent) }
    \cup { Response("ok", "object", 0, EmptyObject, sid, loc) :
              sid \in {"", "s1"}, loc \in {<<>>, Location("s2")} }
    \cup { Response("ok", "empty", StatusAbsent, Absent, "", Location("s2")) }
\* and to any other command of the facade
SimpleResponses == { Envelope(0, Null), Envelope(13, Absent) }
\* the one-line operations the model of the facade follows
SessionCommands == { c \in PlainCommands : c.op \in {"deleteSession", "getUrl"} }

\* lines 193-201 with the Location header looked at first
NewSessionIdFromLocationFirst(res) ==
    IF res.location # <<>> THEN res.location[Len(res.location)]
    ELSE IF res.body = "object" /\ res.sessionId # "" THEN res.sessionId
    ELSE ""

\* lines 193-201: the session id of a session-creation response ("" when
\* it cannot be determined)
NewSessionId(res) ==
    IF res.body = "object" /\ res.sessionId # "" THEN res.sessionId
    ELSE IF res.location # <<>> THEN res.location[Len(res.location)]
    ELSE ""

\* line 202: self.sessionBasePath + '/' + self.sessionId
NewBasePath(base, id) == base \o <<id>>

\* the caller calls the next public operation once the last one has reported
CanCall ==
    /\ curOp.n < MaxOps
    /\ curOp.n = 0 \/ \E i \in 1..Len(calls) : calls[i].n = curOp.n

SessionInit ==
    /\ WaitIdle
    /\ GetIdle
    /\ SessionIdle
    /\ OpIdle
    /\ timeouts = DefaultTimeouts(3000)
    /\ sessionBasePath = InitialBasePath
    /\ inflight = {}
    /\ httpLog = <<>>
    /\ calls = <<>>

\* one request is sent for the public operation `op`
Send(n, op, rel, method, resNeeded, type, ms) ==
    LET req == SessionRequest(Len(httpLog) + 1, n, op, sessionId,
                              sessionBasePath, rel,
                              method, resNeeded, type, ms, 0)
    IN /\ inflight' = inflight \cup {req}
       /\ httpLog' = Append(httpLog, Sent(req))

\* init (lines 184-189): the session-creation command
InitCall ==
    /\ CanCall
    /\ curOp' = [n |-> curOp.n + 1, op |-> "init"]
    /\ Send(curOp.n + 1, "init", <<>>, "POST", TRUE, "", 0)
    /\ UNCHANGED <<sessionBasePath, calls, timeouts, sessionId, closures, initAnswer>>
    /\ UNCHANGED othersThanSession

\* the requests of setTimeouts(this.timeouts) (lines 472-474, 443-448)
\* issued from the base path `base`, reporting to closure `cl`
TimeoutRequests(n, sid, base, cl) ==
    { SessionRequest(Len(httpLog) + i, n, "timeouts", sid, base, <<"timeouts">>,
                     "POST", FALSE, ProtocolTimeouts[i],
                     timeouts[ProtocolTimeouts[i]], cl) :
        i \in 1..Len(ProtocolTimeouts) }
TimeoutRequestsSent(n, sid, base, cl) ==
    [i \in 1..Len(ProtocolTimeouts) |->
        Sent(CHOOSE r \in TimeoutRequests(n, sid, base, cl) :
                r.seq = Len(httpLog) + i)]

\* the session-creation command is answered: lines 190-206, with the
\* synchronous part of setTimeouts(self.timeouts) (lines 464-475)
InitRespond ==
    \E req \in inflight, res \in InitResponses :
       /\ req.op = "init"
       /\ initAnswer' = <<res>>
       /\ LET out == CmdOutcome(req, res)
              id == NewSessionId(res)
              base == NewBasePath(sessionBasePath, id)
              cl == Len(closures) + 1
          IN IF out.thrown \/ out.err.kind # "none"
             THEN /\ calls' = Append(calls, SessionReport(req.n, "init",
                                        Outcome(out.thrown, out.err, Undefined)))
                  /\ inflight' = inflight \ {req}
                  /\ UNCHANGED <<sessionBasePath, httpLog, timeouts, sessionId, closures>>
             ELSE IF id = ""
             THEN /\ calls' = Append(calls, SessionReport(req.n, "init",
                        Outcome(FALSE, Err("CantDetermineSessionId", <<>>), Undefined)))
                  /\ inflight' = inflight \ {req}
                  /\ UNCHANGED <<sessionBasePath, httpLog, timeouts, sessionId, closures>>
             ELSE /\ sessionId' = id
                  /\ sessionBasePath' = base
                  /\ closures' = Append(closures,
                        [n |-> req.n, owner |-> "init",
                         count |-> Cardinality(DOMAIN timeouts),
                         current |-> Cardinality(DOMAIN timeouts)
                                        - Len(ProtocolTimeouts)])
                  /\ inflight' = (inflight \ {req}) \cup TimeoutRequests(req.n, id, base, cl)
                  /\ httpLog' = httpLog \o TimeoutRequestsSent(req.n, id, base, cl)
                  /\ UNCHANGED <<calls, timeouts>>
       /\ UNCHANGED curOp
       /\ UNCHANGED othersThanSession

\* lines 467-471: callbackWrapper of the setTimeouts call `cl` is called
\* with the outcome of one setTimeout; init's callback passes the driver
\* along (lines 203-205)
CallbackWrapper(cl, out) ==
    LET c == closures[cl]
        value == IF c.owner = "init" THEN Self ELSE Undefined
    IN IF out.err.kind # "none"
       THEN /\ calls' = Append(calls, SessionReport(c.n, c.owner,
                                         Outcome(FALSE, out.err, value)))
            /\ closures' = closures
       ELSE /\ closures' = [closures EXCEPT ![cl].current = c.current + 1]
            /\ calls' = IF c.current + 1 = c.count
                        THEN Append(calls, SessionReport(c.n, c.owner,
                                               Outcome(FALSE, NoErr, value)))
                        ELSE calls

\* a setTimeout that stores the value whatever the server answered
TimeoutsRespondStoringAlways ==
    \E req \in inflight, res \in SimpleResponses :
       /\ req.op = "timeouts"
       /\ inflight' = inflight \ {req}
       /\ LET out == CmdOutcome(req, res)
          IN /\ timeouts' = [timeouts EXCEPT ![req.type] = req.ms]
             /\ IF req.cl = 0
                THEN /\ calls' = Append(calls, SessionReport(req.n, "setTimeout",
                           IF out.err.kind # "none"
                           THEN Outcome(FALSE, out.err, Undefined)
                           ELSE Outcome(FALSE, NoErr, Self)))
                     /\ closures' = closures
                ELSE CallbackWrapper(req.cl, out)
       /\ UNCHANGED <<sessionBasePath, httpLog, sessionId, curOp, initAnswer>>
       /\ UNCHANGED othersThanSession

\* a timeouts command is answered: the callback of setTimeout (lines
\* 448-452), then the caller's callback or callbackWrapper
TimeoutsRespond ==
    \E req \in inflight, res \in SimpleResponses :
       /\ req.op = "timeouts"
       /\ inflight' = inflight \ {req}
       /\ LET out == CmdOutcome(req, res)
          IN /\ timeouts' = IF out.err.kind = "none"
                            THEN [timeouts EXCEPT ![req.type] = req.ms]
                            ELSE timeouts
             /\ IF req.cl = 0
                THEN /\ calls' = Append(calls, SessionReport(req.n, "setTimeout",
                           IF out.err.kind # "none"
                           THEN Outcome(FALSE, out.err, Undefined)
                           ELSE Outcome(FALSE, NoErr, Self)))
                     /\ closures' = closures
                ELSE CallbackWrapper(req.cl, out)
       /\ UNCHANGED <<sessionBasePath, httpLog, sessionId, curOp, initAnswer>>
       /\ UNCHANGED othersThanSession

\* setTimeout(type, timeout, callback), lines 441-457
TimeoutValues == {500}
SetTimeoutCall ==
    /\ CanCall
    /\ curOp' = [n |-> curOp.n + 1, op |-> "setTimeout"]
    /\ \E type \in {"script", "waitFor"}, ms \in TimeoutValues :
          IF IsProtocolTimeout(type)
          THEN /\ Send(curOp.n + 1, "timeouts", <<"timeouts">>, "POST", FALSE, type, ms)
               /\ UNCHANGED <<timeouts, calls>>
          ELSE /\ timeouts' = [timeouts EXCEPT ![type] = ms]
               /\ calls' = Append(calls, SessionReport(curOp.n + 1, "setTimeout",
                                             Outcome(FALSE, NoErr, Self)))
               /\ UNCHANGED <<inflight, httpLog>>
    /\ UNCHANGED <<sessionBasePath, sessionId, closures, initAnswer>>
    /\ UNCHANGED othersThanSession

\* setTimeouts(timeouts, callback), lines 464-475, called with an object
\* that gives `ms` to the categories `obj`: a '/timeouts' command for each
\* server-enforced category; the others are set and counted at once
SetTimeoutsCall ==
    /\ CanCall
    /\ curOp' = [n |-> curOp.n + 1, op |-> "setTimeouts"]
    /\ \E obj \in {{}, {"waitFor"}, {"script", "waitFor"}},
          ms \in TimeoutValues :
          LET n == curOp.n + 1
              cl == Len(closures) + 1
              remote == SelectSeq(ProtocolTimeouts, LAMBDA t : t \in obj)
              local == obj \ Range(ProtocolTimeouts)
              req(i) == SessionRequest(Len(httpLog) + i, n, "timeouts", sessionId,
                                       sessionBasePath, <<"timeouts">>, "POST",
                                       FALSE, remote[i], ms, cl)
          IN /\ closures' = Append(closures,
                                   [n |-> n, owner |-> "setTimeouts",
                                    count |-> Cardinality(obj),
                                    current |-> Cardinality(local)])
             /\ inflight' = inflight \cup {req(i) : i \in 1..Len(remote)}
             /\ httpLog' = httpLog \o [i \in 1..Len(remote) |-> Sent(req(i))]
             /\ timeouts' = [t \in DOMAIN timeouts |->
                                IF t \in local THEN ms ELSE timeouts[t]]
             /\ calls' = IF local # {} /\ local = obj
                         THEN Append(calls, SessionReport(n, "setTimeouts",
                                                Outcome(FALSE, NoErr, Undefined)))
                         ELSE calls
    /\ UNCHANGED <<sessionBasePath, sessionId, initAnswer>>
    /\ UNCHANGED othersThanSession

\* deleteSession and the other one-line operations
PlainCall ==
    /\ CanCall
    /\ \E c \in SessionCommands :
          /\ curOp' = [n |-> curOp.n + 1, op |-> c.op]
          /\ Send(curOp.n + 1, c.op, c.path, c.method, FALSE, "", 0)
    /\ UNCHANGED <<sessionBasePath, calls, timeouts, sessionId, closures, initAnswer>>
    /\ UNCHANGED othersThanSession

\* a one-line operation is answered: _cmd reports to the caller's callback
PlainRespond ==
    \E req \in inflight, res \in SimpleResponses :
       /\ req.op \notin {"init", "timeouts"}
       /\ inflight' = inflight \ {req}
       /\ calls' = Append(calls, SessionReport(req.n, req.op,
                                     CmdOutcome(req, res)))
       /\ UNCHANGED <<sessionBasePath, httpLog, timeouts, sessionId, curOp, closures, initAnswer>>
       /\ UNCHANGED othersThanSession

SessionNext ==
    \/ InitCall
    \/ InitRespond
    \/ TimeoutsRespond
    \/ SetTimeoutCall
    \/ SetTimeoutsCall
    \/ PlainCall
    \/ PlainRespond

SpecSession == SessionInit /\ [][SessionNext]_vars

(***************************************************************************)
(* Polling engine: WebDriver.prototype.waitFor                             *)
(***************************************************************************)
\* the table's value whatever the params say
TableTimeout(p, table) == table["waitFor"]

\* timeout = params.timeout || self.timeouts.waitFor
EffectiveTimeout(p, table) ==
    IF p.timeout # 0 THEN p.timeout ELSE table["waitFor"]

\* the two setTimeout calls of execute()
ExecuteTimers(t, tmo) ==
    {[kind |-> "poll", at |-> t + delay], [kind |-> "deadline", at |-> t + tmo]}

\* the value the deadline timer passes to callback
TimeoutReport(p, tmo) ==
    IF p.noError
    THEN [err |-> "none", timeout |-> 0, desc |-> "", value |-> "undefined"]
    ELSE [err |-> "Timeout", timeout |-> tmo, desc |-> p.errorMessage,
          value |-> "undefined"]

SuccessReport == [err |-> "none", timeout |-> 0, desc |-> "", value |-> "driver"]

\* timers fire in the order of their expiry, once the clock has reached it
Due(tm) == tm.at <= now /\ \A o \in timers : o.at >= tm.at

WaitInit ==
    /\ WaitIdle
    /\ timeouts \in {DefaultTimeouts(w) : w \in TableWaitFor}
    /\ CmdIdle
    /\ GetIdle
    /\ SessionIdle
    /\ OpIdle

\* waitFor(func, params, callback) with the params p: lines 661-669 and the
\* first execute()
WaitForStart(p) ==
    LET tmo == EffectiveTimeout(p, timeouts)
    IN /\ wParams' = p
       /\ wTimeout' = tmo
       /\ timers' = ExecuteTimers(now, tmo)
       /\ wPhase' = "called"
       /\ isDone' = FALSE
       /\ isTimeoutExceeded' = FALSE
       /\ UNCHANGED <<now, predPending, funcCalls, reported, waitCalls>>

\* a direct call of waitFor
WaitFor ==
    /\ wPhase = "idle"
    /\ \E tp \in TimeoutParams, ne \in BOOLEAN, em \in ErrorMessages :
          WaitForStart([timeout |-> tp, noError |-> ne, errorMessage |-> em])
    /\ UNCHANGED othersThanWait

\* the poll timer (lines 671-680) fires: func is invoked
FuncCalled ==
    /\ \E tm \in timers :
          /\ tm.kind = "poll"
          /\ Due(tm)
          /\ timers' = timers \ {tm}
    /\ predPending' = TRUE
    /\ funcCalls' = funcCalls + 1
    /\ UNCHANGED <<wPhase, now, isDone, isTimeoutExceeded, wParams, wTimeout,
                   reported, waitCalls>>

PollTimer ==
    /\ FuncCalled
    /\ UNCHANGED othersThanWait

\* the function waitFor hands to func (lines 672-679)
waitCallback(done) ==
    /\ predPending' = FALSE
    /\ isDone' = done
    /\ reported' = Append(reported, [done |-> done, late |-> isTimeoutExceeded])
    /\ IF done /\ ~isTimeoutExceeded
       THEN /\ waitCalls' = Append(waitCalls, SuccessReport)
            /\ timers' = timers
       ELSE IF ~isTimeoutExceeded
       THEN /\ timers' = timers \cup ExecuteTimers(now, wTimeout)
            /\ waitCalls' = waitCalls
       ELSE UNCHANGED <<timers, waitCalls>>
    /\ UNCHANGED <<wPhase, now, isTimeoutExceeded, wParams, wTimeout, funcCalls>>

\* func reports through waitCallback(done)
Report(done) ==
    /\ predPending
    /\ waitCallback(done)
    /\ UNCHANGED othersThanWait

\* a deadline timer that reports without looking at isDone
DeadlineTimerIgnoringIsDone ==
    /\ \E tm \in timers :
          /\ tm.kind = "deadline"
          /\ Due(tm)
          /\ timers' = timers \ {tm}
    /\ isTimeoutExceeded' = TRUE
    /\ waitCalls' = Append(waitCalls, TimeoutReport(wParams, wTimeout))
    /\ UNCHANGED <<wPhase, now, isDone, wParams, wTimeout, predPending,
                   funcCalls, reported>>
    /\ UNCHANGED othersThanWait

\* a deadline timer (lines 681-689) fires
DeadlineTimer ==
    /\ \E tm \in timers :
          /\ tm.kind = "deadline"
          /\ Due(tm)
          /\ timers' = timers \ {tm}
    /\ IF ~isDone
       THEN /\ isTimeoutExceeded' = TRUE
            /\ waitCalls' = Append(waitCalls, TimeoutReport(wParams, wTimeout))
       ELSE UNCHANGED <<isTimeoutExceeded, waitCalls>>
    /\ UNCHANGED <<wPhase, now, isDone, wParams, wTimeout, predPending,
                   funcCalls, reported>>
    /\ UNCHANGED othersThanWait

\* time passes while no armed timer has expired
Tick ==
    /\ wPhase = "called"
    /\ now < MaxTime
    /\ \A tm \in timers : tm.at > now
    /\ now' = now + ClockStep
    /\ UNCHANGED <<wPhase, timers, isDone, isTimeoutExceeded, wParams,
                   wTimeout, predPending, funcCalls, reported, waitCalls>>
    /\ UNCHANGED othersThanWait

WaitNext ==
    \/ WaitFor
    \/ PollTimer
    \/ \E done \in BOOLEAN : Report(done)
    \/ DeadlineTimer
    \/ Tick

SpecWait == WaitInit /\ [][WaitNext]_vars

(***************************************************************************)
(* Wait operations built on waitFor: waitForElement, waitForUrlChange      *)
(***************************************************************************)
MaxLookups == 5     \* commands of one wait operation that the model follows

\* URLs as sequences of parts; the query string starts at "?"
Url(file, query) ==
    <<"file:", file>> \o (IF query THEN <<"?", "x=1">> ELSE <<>>)

\* the url left as it is
KeepQuery(url) == url

\* url.replace(/\?.*$/, '') (line 576): everything from the first "?" goes
StripQuery(url) ==
    LET qs == {i \in 1..Len(url) : url[i] = "?"}
    IN IF qs = {} THEN url
       ELSE SubSeq(url, 1, (CHOOSE i \in qs : \A j \in qs : i <= j) - 1)

\* RegExp.prototype.test for a pattern of literal parts: they occur in url
Test(text, url) ==
    \E i \in 1..(Len(url) - Len(text) + 1) :
        SubSeq(url, i, i + Len(text) - 1) = text

\* lines 578-579: the value waitForUrlChange passes to waitCallback
UrlCondition(oldUrl, newUrl, url) ==
    /\ IF oldUrl.kind = "regexp" THEN ~Test(oldUrl.text, url)
       ELSE oldUrl.text # url
    /\ \/ newUrl.kind = "none"
       \/ IF newUrl.kind = "regexp" THEN Test(newUrl.text, url)
          ELSE newUrl.text = url

\* the calls of waitForUrlChange(oldUrl, newUrl, callback) followed
UrlChangeCalls ==
    LET index == Pattern("string", Url("index.html", FALSE))
        terms == Pattern("string", Url("terms.html", FALSE))
    IN { [old |-> index, new |-> terms], [old |-> terms, new |-> index],
         [old |-> index, new |-> NoUrl], [old |-> NoUrl, new |-> terms],
         [old |-> Pattern("regexp", <<"index.html">>),
          new |-> Pattern("regexp", <<"file:", "terms.html">>)],
         [old |-> NoUrl, new |-> NoUrl] }

\* this.timeouts[key], 0 for undefined
TableEntry(table, key) == IF key \in DOMAIN table THEN table[key] ELSE 0

\* what a server answers to the lookup and to getUrl
ElementAnswers ==
    { Envelope(0, ElementRef("e2")), Envelope(7, Absent), Envelope(13, Absent),
      TransportFailure }
UrlAnswers ==
    { Envelope(0, Val("string", Url(f, q), "")) :
         f \in {"index.html", "terms.html"}, q \in BOOLEAN }
    \cup { Envelope(13, Absent), TransportFailure, Envelope(0, Null) }

\* callback(err), called by the function given to waitFor
ErrorReport(err) ==
    [err |-> err.kind, timeout |-> 0, desc |-> "", value |-> "undefined"]

\* the timeout table is the constructor's, or has entries for the wait
\* operations as well
WaitOpInit ==
    /\ WaitIdle
    /\ timeouts \in
          {DefaultTimeouts(w) : w \in TableWaitFor}
          \cup { [t \in TimeoutTypes \cup {"waitForElement", "waitForUrlChange"} |->
                     IF t \in TimeoutTypes THEN DefaultTimeouts(w)[t]
                     ELSE MaxTimeoutParam] : w \in TableWaitFor }
    /\ sessionBasePath = InitialBasePath \o <<"s1">>
    /\ inflight = {}
    /\ httpLog = <<>>
    /\ calls = <<>>
    /\ GetIdle
    /\ SessionIdle
    /\ OpIdle

\* waitForElement(selector, params, callback), lines 514-541
WaitForElementCall ==
    /\ wPhase = "idle"
    /\ \E ne \in BOOLEAN :
          /\ wOp' = [NoWaitOp EXCEPT !.op = "waitForElement",
                         !.call = [NoCall EXCEPT !.op = "get", !.selector = "one",
                                      !.noError = ne, !.isSingle = TRUE]]
          /\ WaitForStart([timeout |-> TableEntry(timeouts, "waitForElement"),
                           noError |-> ne,
                           errorMessage |-> "waiting for element one"])
    /\ UNCHANGED <<timeouts, inflight, httpLog, calls>>
    /\ UNCHANGED othersThanWaitOp

\* waitForUrlChange without the test of line 568
WaitForUrlChangeCallUnchecked ==
    /\ wPhase = "idle"
    /\ \E c \in UrlChangeCalls :
          /\ wOp' = [NoWaitOp EXCEPT !.op = "waitForUrlChange",
                         !.oldUrl = c.old, !.newUrl = c.new]
          /\ WaitForStart([timeout |-> TableEntry(timeouts, "waitForUrlChange"),
                           noError |-> FALSE,
                           errorMessage |-> "waiting for url change"])
    /\ UNCHANGED <<timeouts, inflight, httpLog, calls>>
    /\ UNCHANGED othersThanWaitOp

\* waitForUrlChange(oldUrl, newUrl, callback), lines 566-590
WaitForUrlChangeCall ==
    /\ wPhase = "idle"
    /\ \E c \in UrlChangeCalls :
          /\ wOp' = [NoWaitOp EXCEPT !.op = "waitForUrlChange",
                         !.oldUrl = c.old, !.newUrl = c.new]
          /\ IF c.old.kind = "none" /\ c.new.kind = "none"
             THEN /\ waitCalls' = Append(waitCalls,
                                         ErrorReport(Err("BothUrlsFalsy", <<>>)))
                  /\ wPhase' = "rejected"
                  /\ UNCHANGED <<now, timers, isDone, isTimeoutExceeded, wParams,
                                 wTimeout, predPending, funcCalls, reported>>
             ELSE WaitForStart([timeout |-> TableEntry(timeouts, "waitForUrlChange"),
                                noError |-> FALSE,
                                errorMessage |-> "waiting for url change"])
    /\ UNCHANGED <<timeouts, inflight, httpLog, calls>>
    /\ UNCHANGED othersThanWaitOp

\* the request of the command a wait operation polls with
OpRequest ==
    IF wOp.op = "waitForElement"
    THEN Request("find", ElementPath(wOp.call), "POST", FALSE)
    ELSE Request("getUrl", <<"url">>, "GET", FALSE)

\* the poll timer fires: func sends its command (lines 520-521, 573)
OpPollTimer ==
    /\ wOp.op # "none"
    /\ FuncCalled
    /\ inflight' = inflight \cup {OpRequest}
    /\ httpLog' = Append(httpLog, [path |-> OpRequest.path, method |-> OpRequest.method])
    /\ UNCHANGED <<timeouts, calls, wOp>>
    /\ UNCHANGED othersThanWaitOp

\* the lookup of waitForElement is answered: get's callback, lines 521-531
ElementRespond ==
    /\ wOp.op = "waitForElement"
    /\ \E req \in inflight, res \in ElementAnswers :
          LET out == GetResult(NativeIds(wOp.call, CmdOutcome(req, res)))
              done == out.value.tag = "WebElement"
          IN /\ calls' = Append(calls, [op |-> "find", res |-> res, out |-> out,
                                        done |-> done])
             /\ IF out.thrown
                THEN /\ inflight' = inflight \ {req}
                     /\ UNCHANGED <<httpLog, waitVars>>
                ELSE IF out.err.kind = "NoSuchElementError"
                THEN /\ Len(httpLog) < MaxLookups
                     /\ inflight' = (inflight \ {req}) \cup {OpRequest}
                     /\ httpLog' = Append(httpLog, [path |-> OpRequest.path,
                                                    method |-> OpRequest.method])
                     /\ UNCHANGED waitVars
                ELSE IF out.err.kind # "none"
                THEN /\ inflight' = inflight \ {req}
                     /\ waitCalls' = Append(waitCalls, ErrorReport(out.err))
                     /\ UNCHANGED <<httpLog, waitLocals>>
                ELSE /\ inflight' = inflight \ {req}
                     /\ waitCallback(done)
                     /\ UNCHANGED httpLog
    /\ UNCHANGED <<timeouts, wOp>>
    /\ UNCHANGED othersThanWaitOp

\* getUrl of waitForUrlChange is answered: lines 573-581; a value that is
\* no string has no replace method
UrlRespond ==
    /\ wOp.op = "waitForUrlChange"
    /\ \E req \in inflight, res \in UrlAnswers :
          LET cmd == CmdOutcome(req, res)
              noString == ~cmd.thrown /\ cmd.err.kind = "none"
                             /\ cmd.value.tag # "string"
              out == IF noString THEN Outcome(TRUE, NoErr, Undefined) ELSE cmd
              done == ~out.thrown /\ out.err.kind = "none"
                         /\ UrlCondition(wOp.oldUrl, wOp.newUrl,
                                         StripQuery(out.value.items))
          IN /\ calls' = Append(calls, [op |-> "getUrl", res |-> res, out |-> out,
                                        done |-> done])
             /\ inflight' = inflight \ {req}
             /\ IF out.thrown THEN UNCHANGED waitVars
                ELSE IF out.err.kind # "none"
                THEN /\ waitCalls' = Append(waitCalls, ErrorReport(out.err))
                     /\ UNCHANGED waitLocals
                ELSE waitCallback(done)
    /\ UNCHANGED <<timeouts, httpLog, wOp>>
    /\ UNCHANGED othersThanWaitOp

WaitOpNext ==
    \/ WaitForElementCall
    \/ WaitForUrlChangeCall
    \/ OpPollTimer
    \/ ElementRespond
    \/ UrlRespond
    \/ DeadlineTimer
    \/ Tick

SpecWaitOp == WaitOpInit /\ [][WaitOpNext]_vars

(***************************************************************************)
(* driver.element: the element methods mirrored on the driver              *)
(***************************************************************************)
\* the keys of WebElement.prototype: the name after a leading underscore,
\* if any, and the number of arguments before the callback
WebElementMethods ==
    { [name |-> "click", underscore |-> FALSE, arity |-> 0],
      [name |-> "getValue", underscore |-> FALSE, arity |-> 0],
      [name |-> "sendKeys", underscore |-> FALSE, arity |-> 1],
      [name |-> "cmd", underscore |-> TRUE, arity |-> 1] }

\* utils.isSelectorParams: the argument is a params object of get
isSelectorParams(v) == v.tag = "params"
Callback == Val("function", <<>>, "callback")

\* lines 84-85: the keys that get a function on driver.element
MirroredMethods == {m \in WebElementMethods : ~m.underscore}

\* lines 87-94: getArgs and methodArgs of a call with these arguments
SplitArguments(arguments) ==
    IF Len(arguments) >= 2 /\ isSelectorParams(arguments[2])
    THEN [getArgs |-> SubSeq(arguments, 1, 2),
          methodArgs |-> SubSeq(arguments, 3, Len(arguments))]
    ELSE [getArgs |-> SubSeq(arguments, 1, 1),
          methodArgs |-> SubSeq(arguments, 2, Len(arguments))]

\* get(selector, [params], callback) as a lookup (lines 354-358)
GetCallOf(getArgs) ==
    [NoCall EXCEPT !.op = "get", !.selector = getArgs[1].str,
        !.noError = (Len(getArgs) >= 2 /\ getArgs[2].str = "noError"),
        !.isSingle = TRUE]

\* element[method].apply(element, methodArgs): one command on the element
\* with the arguments before the callback
ElementMethod(id, method, methodArgs) ==
    [req |-> Request(method.name, <<"element", id, method.name>>, "POST", FALSE),
     data |-> SubSeq(methodArgs, 1, Len(methodArgs) - 1)]

\* lines 97-100, the callback given to get: the commands sent and the
\* reports made once the lookup has the outcome `out`; a missing element
\* has no methods
AfterLookup(method, methodArgs, out) ==
    IF out.thrown THEN [cmds |-> <<>>, reports |-> <<out>>]
    ELSE IF out.err.kind # "none"
    THEN [cmds |-> <<>>, reports |-> <<Outcome(FALSE, out.err, Undefined)>>]
    ELSE IF out.value.tag = "WebElement"
    THEN [cmds |-> <<ElementMethod(out.value.items[1], method, methodArgs)>>,
          reports |-> <<>>]
    ELSE [cmds |-> <<>>, reports |-> <<Outcome(TRUE, NoErr, Undefined)>>]

\* the commands as sent
SentCmds(cmds) ==
    [i \in 1..Len(cmds) |->
        [path |-> cmds[i].req.path, method |-> cmds[i].req.method,
         data |-> cmds[i].data]]

\* the calls followed: selector, optional params, the method's arguments
MirrorCalls ==
    { [method |-> m, selector |-> Str(sel), params |-> par, args |-> args] :
        m \in MirroredMethods, sel \in {"none", "one"},
        par \in {<<>>, <<Val("params", <<>>, "")>>,
                 <<Val("params", <<>>, "noError")>>},
        args \in {<<>>, <<Str("patrik")>>, <<Str("")>>} }

MirrorInit ==
    /\ WaitIdle
    /\ timeouts = DefaultTimeouts(3000)
    /\ sessionBasePath = InitialBasePath \o <<"s1">>
    /\ inflight = {}
    /\ httpLog = <<>>
    /\ calls = <<>>
    /\ GetIdle
    /\ SessionIdle
    /\ OpIdle

\* driver.element[method](selector, [params], args..., callback), lines
\* 86-103, next to get(selector, [params], ...) called by hand
MirrorCall ==
    /\ mCall.phase = "idle"
    /\ \E c \in MirrorCalls :
          LET arguments == <<c.selector>> \o c.params \o c.args \o <<Callback>>
              split == SplitArguments(arguments)
              find == Request("find", ElementPath(GetCallOf(split.getArgs)),
                              "POST", FALSE)
              byHandFind == Request("find",
                                ElementPath(GetCallOf(<<c.selector>> \o c.params)),
                                "POST", FALSE)
          IN /\ Len(c.args) = c.method.arity
             /\ mCall' = [phase |-> "lookup", method |-> c.method, given |-> c,
                          getArgs |-> split.getArgs, methodArgs |-> split.methodArgs,
                          answer |-> <<>>]
             /\ inflight' = {find}
             /\ httpLog' = SentCmds(<<[req |-> find, data |-> split.getArgs]>>)
             /\ byHand' = [sent |-> SentCmds(<<[req |-> byHandFind,
                                               data |-> <<c.selector>> \o c.params]>>),
                           reports |-> <<>>]
    /\ UNCHANGED calls
    /\ UNCHANGED othersThanMirror

\* the lookup is answered: the callback of get on both sides
MirrorLookupRespond ==
    /\ mCall.phase = "lookup"
    /\ \E req \in inflight,
          res \in { FoundAnswer(GetCallOf(mCall.getArgs)), Envelope(10, Absent),
                    TransportFailure } :
          LET c == mCall.given
              lookup(call) == GetResult(NativeIds(call, CmdOutcome(req, res)))
              mirror == AfterLookup(mCall.method, mCall.methodArgs,
                                    lookup(GetCallOf(mCall.getArgs)))
              hand == AfterLookup(c.method, c.args \o <<Callback>>,
                                  lookup(GetCallOf(<<c.selector>> \o c.params)))
          IN /\ httpLog' = httpLog \o SentCmds(mirror.cmds)
             /\ calls' = calls \o mirror.reports
             /\ inflight' = {mirror.cmds[i].req : i \in 1..Len(mirror.cmds)}
             /\ byHand' = [sent |-> byHand.sent \o SentCmds(hand.cmds),
                           reports |-> byHand.reports \o hand.reports]
             /\ mCall' = [mCall EXCEPT
                             !.phase = IF mirror.cmds = <<>> THEN "done" ELSE "method",
                             !.answer = <<res>>]
    /\ UNCHANGED othersThanMirror

\* the element's command is answered: the method reports to its callback
MirrorMethodRespond ==
    /\ mCall.phase = "method"
    /\ \E req \in inflight,
          res \in { Envelope(0, Null), Envelope(0, Str("patrik")),
                    Envelope(13, Absent) } :
          LET report == CmdOutcome(req, res)
          IN /\ calls' = Append(calls, report)
             /\ byHand' = [byHand EXCEPT !.reports = Append(@, report)]
    /\ inflight' = {}
    /\ mCall' = [mCall EXCEPT !.phase = "done"]
    /\ UNCHANGED httpLog
    /\ UNCHANGED othersThanMirror

MirrorNext ==
    \/ MirrorCall
    \/ MirrorLookupRespond
    \/ MirrorMethodRespond

SpecMirror == MirrorInit /\ [][MirrorNext]_vars

(***************************************************************************)
(* Claims about the polling engine                                         *)
(***************************************************************************)
NeverTrue == \A i \in 1..Len(reported) : ~reported[i].done

\* C1: a predicate that reports false on each invocation makes one call of
\* waitFor without noError invoke the callback exactly once, with a timeout
\* error, and never again, however many poll attempts were made.
C1_OneTimeoutError ==
    (wPhase = "called" /\ ~wParams.noError /\ NeverTrue) =>
        /\ Len(waitCalls) <= 1
        /\ \A i \in 1..Len(waitCalls) : waitCalls[i].err = "Timeout"

\* C2: waitFor is single-shot under every interleaving: at most one report
\* ever reaches the caller, and a predicate result arriving after the
\* deadline has fired causes neither a callback nor another poll.
C2_SingleShot ==
    [][ /\ Len(waitCalls') <= 1
        /\ (predPending /\ ~predPending' /\ isTimeoutExceeded) =>
              (waitCalls' = waitCalls /\ timers' = timers
                  /\ funcCalls' = funcCalls) ]_vars

\* some report of the predicate was true and arrived before any deadline fired
OnTimeSuccess ==
    \E i \in 1..Len(reported) : reported[i].done /\ ~reported[i].late

\* C3: once the predicate has reported true before the deadline, the callback
\* has been invoked exactly once, with no error and the driver; the predicate
\* is not invoked again and no deadline timer adds a timeout report.
C3_SuccessOnce ==
    OnTimeSuccess =>
        /\ waitCalls = <<SuccessReport>>
        /\ ~predPending
        /\ funcCalls = Len(reported)
        /\ \A j \in 1..Len(reported) : reported[j].done => j = Len(reported)
        /\ \A tm \in timers : tm.kind = "deadline"

\* success after two false reports, all deadline timers of the call fired
C3_Witness ==
    /\ OnTimeSuccess
    /\ Len(reported) >= 3
    /\ timers = {}
    /\ now > wTimeout

\* C17: when a deadline of waitFor expires before the condition is met, the
\* callback receives no error if noError is set, and otherwise a timeout
\* error whose message holds the effective timeout (params.timeout if
\* given, else the table's waitFor value) and the description, if any.
C17_DeadlineReport ==
    [][ ((\E tm \in timers \ timers' : tm.kind = "deadline") /\ ~isDone) =>
          waitCalls' = Append(waitCalls,
             IF wParams.noError
             THEN [err |-> "none", timeout |-> 0, desc |-> "", value |-> "undefined"]
             ELSE [err |-> "Timeout",
                   timeout |-> IF wParams.timeout # 0 THEN wParams.timeout
                               ELSE timeouts["waitFor"],
                   desc |-> wParams.errorMessage,
                   value |-> "undefined"]) ]_vars

\* a call with its own timeout and a description timed out with both in the
\* error
C17_Witness ==
    /\ wParams.timeout = 30
    /\ timeouts["waitFor"] # 30
    /\ \E i \in 1..Len(waitCalls) :
          /\ waitCalls[i].err = "Timeout"
          /\ waitCalls[i].timeout = 30
          /\ waitCalls[i].desc = "waiting for x"

\* C25: one call of waitFor arms its deadline timer at the start of the
\* call and no deadline timer afterwards, however often the poll attempt is
\* repeated.
C25_OneDeadlineTimer ==
    [][ wPhase = "called" =>
          {tm \in timers' : tm.kind = "deadline"}
             \subseteq {tm \in timers : tm.kind = "deadline"} ]_vars

(***************************************************************************)
(* Claims about the wait operations                                        *)
(***************************************************************************)
\* the operation's own command failed and the failure went to the callback
FatalReported ==
    \E i \in 1..Len(waitCalls) : waitCalls[i].err \notin {"none", "Timeout"}

\* C14: when the command inside waitForElement or waitForUrlChange fails
\* fatally (a lookup error other than no-such-element, a failed getUrl),
\* the caller's callback is invoked exactly once, with that error, and no
\* second report such as a later timeout error follows.
C14_FatalReportedOnce ==
    (wPhase = "called" /\ FatalReported) => Len(waitCalls) = 1

\* getUrl answered with a URL
UrlAnswered(c) ==
    /\ c.op = "getUrl"
    /\ c.res.transport = "ok" /\ c.res.status = 0
    /\ c.res.value.tag = "string"

\* the pattern agrees with the URL u: equal to it, or matching it
Agrees(pattern, u) ==
    IF pattern.kind = "regexp" THEN Test(pattern.text, u) ELSE pattern.text = u

\* C16: the condition of waitForUrlChange(oldUrl, newUrl) holds for a
\* current URL exactly when the URL without its query string differs from
\* oldUrl (fails to match it, for a pattern) and, if newUrl is given, equals
\* newUrl (matches it); with old index.html and new terms.html a current
\* URL terms.html?x=1 satisfies it and index.html does not.
C16_UrlCondition ==
    \A i \in 1..Len(calls) :
        LET c == calls[i] IN
        UrlAnswered(c) =>
            /\ \E f \in {"index.html", "terms.html"}, q \in BOOLEAN :
                  /\ c.res.value.items = Url(f, q)
                  /\ c.done <=>
                        /\ ~Agrees(wOp.oldUrl, Url(f, FALSE))
                        /\ wOp.newUrl.kind = "none"
                              \/ Agrees(wOp.newUrl, Url(f, FALSE))
            /\ (/\ wOp.oldUrl = Pattern("string", <<"file:", "index.html">>)
                /\ wOp.newUrl = Pattern("string", <<"file:", "terms.html">>)) =>
                  /\ c.res.value.items = <<"file:", "terms.html", "?", "x=1">>
                        => c.done
                  /\ c.res.value.items = <<"file:", "index.html">> => ~c.done

\* waiting for the change from index.html to terms.html ended with success
\* when the current URL was terms.html?x=1
C16_Witness ==
    /\ wOp.oldUrl = Pattern("string", <<"file:", "index.html">>)
    /\ wOp.newUrl = Pattern("string", <<"file:", "terms.html">>)
    /\ waitCalls = <<SuccessReport>>
    /\ \E i \in 1..Len(calls) :
          /\ UrlAnswered(calls[i])
          /\ calls[i].res.value.items = <<"file:", "terms.html", "?", "x=1">>
          /\ calls[i].done

\* C22: when the lookup of waitForElement finds the element in time, the
\* callback of waitForElement receives that element as its value.
C22_PassesElement ==
    [][ (/\ wOp.op = "waitForElement"
         /\ Len(calls') > Len(calls)
         /\ calls'[Len(calls')].done
         /\ ~isTimeoutExceeded) =>
          /\ Len(waitCalls') = Len(waitCalls) + 1
          /\ waitCalls'[Len(waitCalls')].err = "none"
          /\ waitCalls'[Len(waitCalls')].value = "WebElement" ]_vars

\* C23: waitForUrlChange called with oldUrl and newUrl both falsy invokes
\* the callback once, with a local error, sends no command and starts no
\* polling: no timer is armed and the condition is never evaluated.
C23_BothFalsyRejected ==
    (/\ wOp.op = "waitForUrlChange"
     /\ wOp.oldUrl.kind = "none"
     /\ wOp.newUrl.kind = "none") =>
        /\ Len(waitCalls) = 1
        /\ waitCalls[1].err \notin {"none", "Timeout"}
        /\ httpLog = <<>> /\ inflight = {}
        /\ timers = {} /\ funcCalls = 0

\* such a call was made and its error delivered
C23_Witness ==
    /\ wOp.op = "waitForUrlChange"
    /\ wOp.oldUrl = NoUrl /\ wOp.newUrl = NoUrl
    /\ Len(waitCalls) = 1
    /\ waitCalls[1].err = "BothUrlsFalsy"

\* C29: once the deadline of waitForElement has fired and the timeout was
\* reported, no further find-element command is sent.
C29_LookupsStop ==
    [][ (wOp.op = "waitForElement" /\ isTimeoutExceeded) =>
          httpLog' = httpLog ]_vars

\* the lookup of driver.element.<op> was answered and did not succeed:
\* the command failed, or nothing was found and noError was not set
LookupFailed ==
    /\ mCall.answer # <<>>
    /\ LET res == mCall.answer[1]
           noError == Len(mCall.getArgs) >= 2 /\ mCall.getArgs[2].str = "noError"
       IN \/ res.transport # "ok"
          \/ res.status \notin {0, 7}
          \/ res.status = 7 /\ ~noError

\* the mirrored call and the call by hand sent the same commands with the
\* same data in the same order and made the same reports; the methods
\* mirrored are those without the underscore
C15_SameAsByHand ==
    /\ httpLog = byHand.sent
    /\ calls = byHand.reports
    /\ \A m \in WebElementMethods : (m \in MirroredMethods) <=> ~m.underscore

\* C15: driver.element.<op>(selector, [params], args..., callback), for
\* every element operation without a leading underscore and for no other,
\* sends the same commands with the same arguments in the same order and
\* reports the same to the callback as get(selector, [params]) followed by
\* element.<op>(args..., callback); a failed lookup is reported without the
\* element operation being invoked.
C15_MirrorEqualsByHand ==
    /\ C15_SameAsByHand
    /\ LookupFailed =>
          /\ Len(httpLog) = 1
          /\ Len(calls) = 1
          /\ ~calls[1].thrown /\ calls[1].err.kind # "none"

(***************************************************************************)
(* Claims about the command dispatcher                                     *)
(***************************************************************************)
\* the response was parsed and carries no non-zero status
ParsedSuccess(res) ==
    /\ res.transport = "ok"
    /\ res.body \in {"object", "empty"}
    /\ res.status \in {0, StatusAbsent}

\* C4: result-unwrapping rule for a status-0 response: the raw response when
\* resNeeded; otherwise the value when it is an array, a non-object or a
\* non-empty object, and the driver when it is absent, null or an empty
\* object (also for an empty body).
C4_UnwrapRule ==
    \A i \in 1..Len(calls) :
        LET c == calls[i] IN
        ParsedSuccess(c.res) =>
            /\ ~c.out.thrown
            /\ c.out.err = NoErr
            /\ c.out.value =
                  IF c.resNeeded THEN RawRes
                  ELSE IF c.res.value.tag \in {"absent", "null", "emptyObject"}
                       THEN Self
                       ELSE c.res.value

\* a null value came back for a command without resNeeded: the driver is passed
C4_Witness ==
    \E i \in 1..Len(calls) :
        /\ ParsedSuccess(calls[i].res)
        /\ ~calls[i].resNeeded
        /\ calls[i].res.value = Null
        /\ calls[i].out.value = Self

\* the response body was parsed as JSON
Parsed(res) ==
    res.transport = "ok" /\ res.body \in {"object", "empty", "null", "primitive"}

NonZeroStatus(res) == res.body = "object" /\ res.status \notin {0, StatusAbsent}

\* C5: for every parsed response _cmd reports an error iff the status is
\* non-zero; the error is of the kind of that status code, carries no
\* context, and no value comes with it.
C5_ErrorIffStatus ==
    \A i \in 1..Len(calls) :
        LET c == calls[i] IN
        Parsed(c.res) =>
            /\ (c.out.err.kind # "none") <=> NonZeroStatus(c.res)
            /\ NonZeroStatus(c.res) =>
                  /\ ~c.out.thrown
                  /\ c.out.err.ctx = <<>>
                  /\ c.out.value = Undefined
                  /\ (c.res.status = 7 => c.out.err.kind = "NoSuchElementError")
                  /\ (c.res.status = 10 =>
                         c.out.err.kind = "StaleElementReferenceError")
                  /\ c.out.err.kind = getProtocolErrorContructor(c.res.status)

\* a stale-element status came back with a value in the envelope
C5_Witness ==
    \E i \in 1..Len(calls) :
        /\ Parsed(calls[i].res)
        /\ calls[i].res.status = 10
        /\ calls[i].res.value = Str("text")
        /\ calls[i].out.err.kind = "StaleElementReferenceError"

\* the body is not a JSON document once its NUL characters are removed
NotJson(res) == res.transport = "ok" /\ res.body = "garbage"

\* C18: a response body that is not valid JSON after the NUL characters are
\* stripped makes _cmd report a ProtocolError carrying the command's path,
\* the parser's reason and the text, through the callback exactly once, with
\* no value and nothing thrown; a body that is valid JSON once stripped
\* gives no ProtocolError.
C18_MalformedBody ==
    /\ Len(calls) <= 1
    /\ (httpLog # <<>> /\ inflight = {}) => Len(calls) = 1
    /\ \A i \in 1..Len(calls) :
          LET c == calls[i]
              e == c.out.err
          IN /\ (e.kind = "ProtocolError") <=> NotJson(c.res)
             /\ NotJson(c.res) =>
                   /\ ~c.out.thrown
                   /\ c.out.value = Undefined
                   /\ \E cmd \in PlainCommands : cmd.op = c.op /\ e.ctx[1] = cmd.path
                   /\ e.ctx[2] # ""
                   /\ NUL \notin Range(e.ctx[3])
                   /\ NUL \notin Range(c.res.raw) => e.ctx[3] = c.res.raw

\* a body of markup between NUL characters was reported with the markup
C18_Witness ==
    \E i \in 1..Len(calls) :
        /\ NotJson(calls[i].res)
        /\ NUL \in Range(calls[i].res.raw)
        /\ calls[i].out.err.kind = "ProtocolError"
        /\ calls[i].out.err.ctx[3] = <<"<", "html", ">">>

\* C19: each dispatch issues exactly one HTTP request and never retries,
\* whatever the outcome; on a transport failure the callback receives the
\* transport error itself and no value.
C19_OneRequestNoRetry ==
    /\ Len(httpLog) <= 1
    /\ Len(httpLog) = Len(calls) + Cardinality(inflight)
    /\ \A i \in 1..Len(calls) :
          LET c == calls[i] IN
          c.res.transport # "ok" =>
              c.out = Outcome(FALSE, Err("TransportError", <<c.res.transport>>),
                              Undefined)

\* a connection reset was reported and the request was not sent again
C19_Witness ==
    /\ Len(httpLog) = 1
    /\ inflight = {}
    /\ \E i \in 1..Len(calls) :
          /\ calls[i].res = TransportReset
          /\ calls[i].out.err = Err("TransportError", <<"ECONNRESET">>)

(***************************************************************************)
(* Claims about selector resolution                                        *)
(***************************************************************************)
ByJquery(c) == EffectiveUsing(c.call.using) = "jquery"

\* the lookup answered that nothing matches: a no-such-element status, or
\* an empty list
NoSuchElementStatus(c) == c.res.transport = "ok" /\ c.res.body = "object" /\ c.res.status = 7
EmptyListAnswer(c) ==
    /\ c.res.transport = "ok" /\ c.res.body = "object" /\ c.res.status = 0
    /\ c.res.value = Array(<<>>)

\* C6: for the native and the jquery strategy, get on a selector with zero
\* matches reports a NoSuchElementError when noError is unset, and no error
\* with a null element when noError is set.
C6_GetNotFound ==
    \A i \in 1..Len(calls) :
        LET c == calls[i] IN
        (c.call.op = "get" /\ c.call.parent # "invalid"
            /\ (NoSuchElementStatus(c) \/ (ByJquery(c) /\ EmptyListAnswer(c)))) =>
            /\ ~c.out.thrown
            /\ IF c.call.noError
               THEN c.out.err = NoErr /\ c.out.value = Null
               ELSE c.out.err.kind = "NoSuchElementError"
                    /\ c.out.value.tag \notin {"WebElement", "WebElements"}

\* a native get with noError that found nothing ended with (null, null)
C6_Witness ==
    \E i \in 1..Len(calls) :
        /\ calls[i].call.op = "get"
        /\ ~ByJquery(calls[i])
        /\ calls[i].call.noError
        /\ NoSuchElementStatus(calls[i])
        /\ calls[i].out.value = Null

\* C7: getList on a selector with zero matches never reports an error and
\* yields an empty list, for both strategies, with noError set or unset,
\* whether the server answers an empty list or a no-such-element status.
C7_GetListNeverErrors ==
    \A i \in 1..Len(calls) :
        LET c == calls[i] IN
        (c.call.op = "getList" /\ c.call.parent # "invalid"
            /\ (NoSuchElementStatus(c) \/ EmptyListAnswer(c))) =>
            c.out = Outcome(FALSE, NoErr, WebElements(<<>>))

\* C8: one jquery-strategy resolution, and one waitForDocumentReady,
\* re-executes its script at most two times after the initial execution,
\* whatever the server returns.
C8_AtMostTwoRetries == execCount <= 3

\* C9: a jquery-strategy get or getList whose chain contains an operation
\* the selection does not support reports an error (and not a not-found
\* result computed without the operation), whatever the selector matches.
C9_UnknownOpIsError ==
    \A i \in 1..Len(calls) :
        LET c == calls[i] IN
        (c.call.op \in {"get", "getList"} /\ ByJquery(c) /\ ~c.rogue
            /\ c.call.parent # "invalid"
            /\ c.call.chain.given /\ "bogus" \in Range(c.call.chain.ops)) =>
            /\ ~c.out.thrown
            /\ c.out.err.kind \notin {"none", "NoSuchElementError"}

\* C20: get or getList called with a parent that is present but is no
\* element handle sends no command and delivers a local error through the
\* operation's callback; nothing is thrown to the caller.
C20_InvalidParentReported ==
    \A i \in 1..Len(calls) :
        LET c == calls[i] IN
        c.call.parent = "invalid" =>
            /\ httpLog = <<>>
            /\ ~c.out.thrown
            /\ c.out.err.kind \notin {"none", "TransportError", "ProtocolError"}

\* the error _cmd makes of the last answer of the lookup ("none" if none)
LookupError(c) ==
    CmdOutcome([rel |-> <<>>, resNeeded |-> FALSE], c.res).err.kind

\* C21: with noError set, get and getList suppress a no-such-element error
\* only: any other error of the lookup (another protocol status, a body
\* that is no JSON, a transport failure, a script error of the jquery
\* strategy) reaches the callback as an error, never as a null result.
C21_OnlyNotFoundSuppressed ==
    \A i \in 1..Len(calls) :
        LET c == calls[i] IN
        (c.call.op \in {"get", "getList"} /\ c.call.parent # "invalid"
            /\ c.call.noError
            /\ LookupError(c) \notin {"none", "NoSuchElementError"}) =>
            /\ ~c.out.thrown
            /\ c.out.err.kind = LookupError(c)

\* C26: every error get or getList report, and every failure of their
\* lookup (a transport failure included), reaches the callback as an error
\* that carries the selector and the effective strategy name.
C26_ErrorsParametrized ==
    \A i \in 1..Len(calls) :
        LET c == calls[i] IN
        (c.call.op \in {"get", "getList"} /\ c.call.parent # "invalid"
            /\ (c.out.err.kind # "none" \/ c.res.transport # "ok")) =>
            /\ ~c.out.thrown
            /\ c.out.err.kind # "none"
            /\ c.out.err.ctx = <<c.call.selector, EffectiveUsing(c.call.using)>>

\* the first answer to waitForElementAbsent's lookup named an element
ElementFound(c) ==
    /\ c.res.transport = "ok" /\ c.res.body = "object" /\ c.res.status = 0
    /\ \/ c.res.value.tag = "object" /\ c.res.value.items # <<>>
       \/ ByJquery(c) /\ c.res.value.tag = "array" /\ c.res.value.items # <<>>

\* C27: waitForElementAbsent, whatever params the caller passes, reports
\* success with the driver and does nothing more when its lookup finds no
\* element, reports the error when the lookup fails in any other way, and
\* hands over to the element's waitForDisappear, reporting its outcome,
\* only when an element was found.
C27_AbsentShortCircuit ==
    (calls # <<>> /\ calls[1].call.op = "waitForElementAbsent") =>
        LET c == calls[1] IN
        /\ (NoSuchElementStatus(c) \/ (ByJquery(c) /\ EmptyListAnswer(c))) =>
                /\ c.out = Outcome(FALSE, NoErr, Self)
                /\ Len(calls) = 1
        /\ LookupError(c) \notin {"none", "NoSuchElementError"} =>
                /\ ~c.out.thrown
                /\ c.out.err.kind = LookupError(c)
                /\ Len(calls) = 1
        /\ (c.out.value.tag = "waitForDisappear" \/ Len(calls) > 1) => ElementFound(c)

\* C30: on a page that evaluates the snippet itself and is not loaded
\* anew, a jquery-strategy resolution re-executes its script at most once:
\* after 'needJquery' (bare page) with the helper library and the selection
\* function prepended, after 'needFunc' (helper installed) with the
\* selection function alone, and not at all when both are installed.  It
\* ends with the page's selection result, not with a sentinel, and leaves
\* both installed, so that every later resolution needs one execution.
C30_BootstrapMachine ==
    /\ gPhase = "running" =>
          \/ execCount = 1 /\ gInj = "none"
          \/ execCount = 2 /\ gInj = "both" /\ page = [jquery |-> FALSE, func |-> FALSE]
          \/ execCount = 2 /\ gInj = "func" /\ page = [jquery |-> TRUE, func |-> FALSE]
    /\ \A i \in 1..Len(calls) :
          LET c == calls[i] IN
          /\ c.res = ScriptAnswer(nwdJqGetElements(c.call.selector, c.call.parent,
                                                   c.call.chain))
          /\ c.res.value.tag = "array"
          /\ c.execs <= 2
          /\ i > 1 => c.execs = 1
    /\ calls # <<>> => page = [jquery |-> TRUE, func |-> TRUE]

\* a resolution that needed a second execution was followed by one on the
\* same page that needed none
C30_Witness ==
    /\ Len(calls) = 2
    /\ calls[1].execs = 2
    /\ calls[2].execs = 1
    /\ httpLog # <<>>

(***************************************************************************)
(* Claims about the session facade                                         *)
(***************************************************************************)
\* C10: the session-creation request of init is sent to '/wd/hub/session',
\* and once init has obtained the session id S every command dispatched
\* afterwards, the timeout commands of init included, is sent to
\* '/wd/hub/session/S' followed by the command's relative path.
C10_CommandPaths ==
    \A i \in 1..Len(httpLog) :
        LET e == httpLog[i] IN
        /\ e.op = "init" => e.path = <<"wd", "hub", "session">>
        /\ e.sid # "" => e.path = <<"wd", "hub", "session", e.sid>> \o e.rel

\* the session-creation request failed: no connection, or a non-zero status
InitRequestFailed(res) ==
    res.transport # "ok" \/ res.status \notin {0, StatusAbsent}

\* the session id a session-creation response names ("" when it names none)
NamedSessionId(res) ==
    IF res.sessionId # "" THEN res.sessionId
    ELSE IF res.location # <<>> THEN res.location[Len(res.location)]
    ELSE ""

\* C11: init takes the session id from the body's sessionId when present (in
\* preference to the Location header), otherwise from the last segment of
\* the Location header; when neither is present, and when the request
\* failed, init reports an error, leaves the base path unchanged and sends
\* no further command.
C11_SessionIdSource ==
    [][ (\E req \in inflight \ inflight' : req.op = "init") =>
          LET res == initAnswer'[1]
          IN IF InitRequestFailed(res) \/ NamedSessionId(res) = ""
             THEN /\ sessionBasePath' = sessionBasePath
                  /\ sessionId' = sessionId
                  /\ httpLog' = httpLog
                  /\ inflight' \subseteq inflight
                  /\ Len(calls') = Len(calls) + 1
                  /\ calls'[Len(calls')].op = "init"
                  /\ calls'[Len(calls')].out.err.kind # "none"
             ELSE /\ sessionId' = NamedSessionId(res)
                  /\ calls' = calls ]_vars

\* a response naming s1 in its body and s2 in its Location header made s1
\* the session id
C11_Witness ==
    /\ sessionId = "s1"
    /\ Len(initAnswer) = 1
    /\ initAnswer[1].sessionId = "s1"
    /\ initAnswer[1].location = Location("s2")

\* C12: over any sequence of public operations on one driver the session
\* base path is changed at most once, and only by a successful init: a
\* change always starts from the constructor's value.
C12_BasePathSetOnce ==
    [][ sessionBasePath' # sessionBasePath =>
           sessionBasePath = InitialBasePath ]_vars

\* C13: when the caller starts each public operation only after the
\* previous one has reported, no two commands are in flight at the same
\* time, the timeout commands of init and setTimeouts included.
C13_OneCommandInFlight == Cardinality(inflight) <= 1

\* the reports of the setTimeouts call `cl` to its callback
ReportsOf(cl) == {i \in 1..Len(calls) : calls[i].n = closures[cl].n}

\* C28: the callback of a setTimeouts call, made directly or by init, is
\* never invoked twice, and it has been invoked once when none of the
\* call's timeout commands is outstanding any more - with an empty
\* timeouts object as well.
C28_CallbackExactlyOnce ==
    \A cl \in 1..Len(closures) :
        /\ Cardinality(ReportsOf(cl)) <= 1
        /\ (\A req \in inflight : req.cl # cl) => Cardinality(ReportsOf(cl)) = 1

\* C24: setTimeout(type, v) for a server-enforced category sends one
\* '/timeouts' command and leaves the table alone until the answer; the
\* entry becomes v when the command succeeded, and then success is reported,
\* and the table stays as it was when the command failed.  For any other
\* category setTimeout sets the entry and reports success without sending
\* a command.  Nothing but setTimeout, called directly or by setTimeouts,
\* changes the table.
C24_TableConsistent ==
    [][ /\ \A req \in inflight' \ inflight :
              (req.op = "timeouts" /\ req.cl = 0) =>
                 /\ Cardinality(inflight' \ inflight) = 1
                 /\ Len(httpLog') = Len(httpLog) + 1
                 /\ httpLog'[Len(httpLog')].rel = <<"timeouts">>
                 /\ timeouts' = timeouts
        /\ \A req \in inflight \ inflight' :
              (req.op = "timeouts" /\ req.cl = 0) =>
                 /\ Len(calls') = Len(calls) + 1
                 /\ IF calls'[Len(calls')].out.err.kind = "none"
                    THEN /\ timeouts' = [timeouts EXCEPT ![req.type] = req.ms]
                         /\ timeouts'[req.type] = req.ms
                    ELSE timeouts' = timeouts
        /\ (curOp' # curOp /\ curOp'.op = "setTimeout" /\ inflight' = inflight) =>
                 /\ httpLog' = httpLog
                 /\ calls' = Append(calls, SessionReport(curOp'.n, "setTimeout",
                                               Outcome(FALSE, NoErr, Self)))
                 /\ \E type \in DOMAIN timeouts \ {"page load", "script", "implicit"} :
                       /\ timeouts'[type] \in TimeoutValues
                       /\ \A t \in DOMAIN timeouts \ {type} : timeouts'[t] = timeouts[t]
        /\ timeouts' # timeouts =>
                 \/ \E req \in inflight \ inflight' : req.op = "timeouts"
                 \/ curOp' # curOp /\ curOp'.op \in {"setTimeout", "setTimeouts"} ]_vars

\* setTimeout('script', 500) was acknowledged and reported, and the table
\* holds 500
C24_Witness ==
    /\ timeouts["script"] = 500
    /\ \E i \in 1..Len(calls) :
          calls[i].op = "setTimeout" /\ calls[i].out = Outcome(FALSE, NoErr, Self)
    /\ \E i \in 1..Len(httpLog) :
          httpLog[i].op = "timeouts" /\ httpLog[i].rel = <<"timeouts">>

====
